---- MODULE Spec2Model ----
(***************************************************************************)
(* Model of services/vanna/main.py: the POST /generate-sql handler of the  *)
(* Vanna AI server.  A request is resolved to SQL by an ordered cascade of *)
(* substring rules, or by a chat-completion call when no rule matches, and *)
(* the SQL is then executed on a fresh database connection.                *)
(*                                                                         *)
(* Text is modelled as TLA+ strings, i.e. sequences of characters: every   *)
(* containment test, case conversion, trim, replacement and pattern search *)
(* below is computed character by character, as Python computes it.        *)
(***************************************************************************)
EXTENDS Integers, Sequences, FiniteSets, TLC

VARIABLES
    pc,             \* position of the handler: "idle", "fallback", "execute", "done", "raised", "root_done"
    body,           \* the JSON body of the request
    query,          \* local query of generate_sql
    sql,            \* local sql of generate_sql
    completion,     \* what groq_client.chat.completions.create did in this request
    groq_requests,  \* the messages argument of every completion call made
    db_calls,       \* every call made on the database driver, in order
    executed,       \* every string passed to cur.execute
    open_conns,     \* connections opened by get_db() and not closed
    open_cursors,   \* cursors opened by conn.cursor() and not closed
    response        \* the value returned to the caller

vars == <<pc, body, query, sql, completion, groq_requests, db_calls, executed,
          open_conns, open_cursors, response>>

(***************************************************************************)
(* Bounds of the model.                                                    *)
(***************************************************************************)
MaxWords == 2       \* fragments joined into one question
MaxTokens == 4      \* tokens glued after "invoice above " for the threshold search

(***************************************************************************)
(* Python string primitives.                                               *)
(***************************************************************************)
Char(s, i) == SubSeq(s, i, i)

UpperCase == "ABCDEFGHIJKLMNOPQRSTUVWXYZ"
LowerCase == "abcdefghijklmnopqrstuvwxyz"
Digits == "0123456789"

Chars(alphabet) == {Char(alphabet, i) : i \in 1..Len(alphabet)}
UpperChars == Chars(UpperCase)
LowerChars == Chars(LowerCase)
DigitChars == Chars(Digits)

\* the lowercase letter at the same place of the alphabet
ToLower == [c \in UpperChars |->
              Char(LowerCase, CHOOSE i \in 1..Len(UpperCase) : Char(UpperCase, i) = c)]

\* str.lower() on one character
LowerChar(c) == IF c \in UpperChars THEN ToLower[c] ELSE c

RECURSIVE lower(_)
\* str.lower()
lower(s) == IF s = "" THEN "" ELSE LowerChar(Char(s, 1)) \o lower(Tail(s))

\* needle in hay
Contains(hay, needle) ==
    \E i \in 1..(Len(hay) - Len(needle) + 1) :
        SubSeq(hay, i, i + Len(needle) - 1) = needle

\* the ASCII characters for which str.isspace() holds: space, \t, \n, \r, \f,
\* and (written raw between the quotes) \x0b, \x1c, \x1d, \x1e, \x1f.
\* Python also strips \x85, \xa0 and the Unicode spaces, which a string of
\* this module cannot hold.
VerticalTab == ""
FileSeparator == ""
GroupSeparator == ""
RecordSeparator == ""
UnitSeparator == ""
Whitespace ==
    {" ", "\t", "\n", "\r", "\f",
     VerticalTab, FileSeparator, GroupSeparator, RecordSeparator, UnitSeparator}

\* str.strip()
strip(s) ==
    LET keep == {i \in 1..Len(s) : Char(s, i) \notin Whitespace}
    IN  IF keep = {} THEN ""
        ELSE SubSeq(s, CHOOSE i \in keep : \A j \in keep : i <= j,
                       CHOOSE i \in keep : \A j \in keep : j <= i)

RECURSIVE remove(_, _)
\* str.replace(old, ""): the non-overlapping occurrences of old, left to right
remove(s, old) ==
    IF Len(s) < Len(old) THEN s
    ELSE IF SubSeq(s, 1, Len(old)) = old
         THEN remove(SubSeq(s, Len(old) + 1, Len(s)), old)
         ELSE Char(s, 1) \o remove(Tail(s), old)
(***************************************************************************)
(* The SQL text of each rule and the fallback prompt, verbatim.            *)
(***************************************************************************)
\* main.py lines 44-48
sql_1 ==
       "\n"
    \o "        SELECT SUM(amount) AS total_spend\n"
    \o "        FROM \"Invoice\"\n"
    \o "        WHERE date >= CURRENT_DATE - INTERVAL '90 days';\n"
    \o "        "

\* main.py lines 51-60
sql_2 ==
       "\n"
    \o "        SELECT \n"
    \o "            COALESCE(\"Vendor\".name, 'Unknown Vendor') AS vendor_name,\n"
    \o "            SUM(\"Invoice\".amount) AS total_spend\n"
    \o "        FROM \"Invoice\"\n"
    \o "        LEFT JOIN \"Vendor\" ON \"Invoice\".\"vendorId\" = \"Vendor\".id\n"
    \o "        GROUP BY vendor_name\n"
    \o "        ORDER BY total_spend DESC\n"
    \o "        LIMIT 5;\n"
    \o "        "

\* main.py lines 63-63
sql_3 ==
       "SELECT AVG(amount) AS avg_invoice_value FROM \"Invoice\";"

\* main.py lines 66-73
sql_4 ==
       "\n"
    \o "        SELECT TO_CHAR(date_trunc('month', date), 'YYYY-MM') AS month,\n"
    \o "               SUM(ABS(amount)) AS cash_outflow\n"
    \o "        FROM \"Invoice\"\n"
    \o "        WHERE amount < 0\n"
    \o "        GROUP BY month\n"
    \o "        ORDER BY month;\n"
    \o "        "

\* main.py lines 76-84
sql_5 ==
       "\n"
    \o "        SELECT \n"
    \o "            COALESCE(\"Vendor\".category, 'Uncategorized') AS category,\n"
    \o "            SUM(\"Invoice\".amount) AS total_spend\n"
    \o "        FROM \"Invoice\"\n"
    \o "        LEFT JOIN \"Vendor\" ON \"Invoice\".\"vendorId\" = \"Vendor\".id\n"
    \o "        GROUP BY category\n"
    \o "        ORDER BY total_spend DESC;\n"
    \o "        "

\* main.py lines 87-91
sql_6 ==
       "\n"
    \o "        SELECT \"invoiceNo\", date, amount, status\n"
    \o "        FROM \"Invoice\"\n"
    \o "        WHERE status ILIKE '%pending%' OR status ILIKE '%overdue%';\n"
    \o "        "

\* main.py lines 94-100
sql_7 ==
       "\n"
    \o "        SELECT \"invoiceNo\", date, amount, status\n"
    \o "        FROM \"Invoice\"\n"
    \o "        WHERE status ILIKE '%processed%'\n"
    \o "        AND date >= date_trunc('month', CURRENT_DATE)\n"
    \o "        ORDER BY date DESC;\n"
    \o "        "

\* main.py lines 103-112
sql_8 ==
       "\n"
    \o "        SELECT \n"
    \o "            \"Vendor\".name AS vendor_name,\n"
    \o "            SUM(\"Invoice\".amount) AS total_spend\n"
    \o "        FROM \"Invoice\"\n"
    \o "        LEFT JOIN \"Vendor\" ON \"Invoice\".\"vendorId\" = \"Vendor\".id\n"
    \o "        WHERE date >= date_trunc('quarter', CURRENT_DATE)\n"
    \o "        GROUP BY vendor_name\n"
    \o "        ORDER BY total_spend DESC;\n"
    \o "        "

\* main.py lines 117-122
sql_9_head ==
       "\n"
    \o "        SELECT \"invoiceNo\", date, amount, status\n"
    \o "        FROM \"Invoice\"\n"
    \o "        WHERE amount > "

sql_9_tail ==
       "\n"
    \o "        ORDER BY amount DESC;\n"
    \o "        "

\* main.py lines 125-129
sql_10 ==
       "\n"
    \o "        SELECT SUM(amount) AS total_pending_amount\n"
    \o "        FROM \"Invoice\"\n"
    \o "        WHERE status ILIKE '%pending%';\n"
    \o "        "

\* main.py lines 132-140
sql_11 ==
       "\n"
    \o "        SELECT \n"
    \o "            \"Vendor\".name AS vendor_name,\n"
    \o "            COUNT(\"Invoice\".id) AS invoice_count\n"
    \o "        FROM \"Invoice\"\n"
    \o "        LEFT JOIN \"Vendor\" ON \"Invoice\".\"vendorId\" = \"Vendor\".id\n"
    \o "        GROUP BY vendor_name\n"
    \o "        ORDER BY invoice_count DESC;\n"
    \o "        "

\* main.py lines 143-152
sql_12 ==
       "\n"
    \o "        SELECT \n"
    \o "            COALESCE(\"Vendor\".category, 'Uncategorized') AS category,\n"
    \o "            SUM(\"Invoice\".amount) AS total_spend\n"
    \o "        FROM \"Invoice\"\n"
    \o "        LEFT JOIN \"Vendor\" ON \"Invoice\".\"vendorId\" = \"Vendor\".id\n"
    \o "        WHERE date >= date_trunc('year', CURRENT_DATE)\n"
    \o "        GROUP BY category\n"
    \o "        ORDER BY total_spend DESC;\n"
    \o "        "

\* main.py lines 156-169
prompt_head ==
       "\n"
    \o "You are an expert SQL assistant with knowledge of this PostgreSQL schema:\n"
    \o "\n"
    \o "Tables:\n"
    \o "- \"Invoice\"(id, invoiceNo, vendorId, date, amount, status)\n"
    \o "- \"Vendor\"(id, name, category)\n"
    \o "- \"Payment\"(id, invoiceId, method, amount, date)\n"
    \o "- \"LineItem\"(id, description, quantity, price, invoiceId)\n"
    \o "\n"
    \o "Generate a valid SQL query (PostgreSQL) to answer this question:\n"

prompt_tail ==
       "\n"
    \o "\n"
    \o "Return **only** SQL code (no explanations).\n"

(***************************************************************************)
(* Intent Matcher: the conditions of the if/elif cascade, in source order. *)
(***************************************************************************)
rule_1(q) == Contains(q, "total spend") /\ Contains(q, "90")
rule_2(q) == Contains(q, "top") /\ Contains(q, "vendor")
rule_3(q) == Contains(q, "average") /\ Contains(q, "invoice")
rule_4(q) == Contains(q, "cash outflow") \/ Contains(q, "expenses")
rule_5(q) == Contains(q, "spend by category") \/ Contains(q, "category spend")
\* rule 6 as it would be with the second disjunct of line 86 left out
rule_6_overdue_only(q) == Contains(q, "overdue")

rule_6(q) == Contains(q, "overdue") \/ Contains(q, "pending")
rule_7(q) ==
    Contains(q, "processed") /\ (Contains(q, "this month") \/ Contains(q, "current month"))
rule_8(q) == Contains(q, "compare") /\ Contains(q, "vendor") /\ Contains(q, "quarter")
rule_9(q) == Contains(q, "above") /\ Contains(q, "invoice")
rule_10(q) == Contains(q, "total pending") \/ Contains(q, "pending amount")
rule_11(q) == Contains(q, "invoice count") /\ Contains(q, "vendor")
rule_12(q) == Contains(q, "category") /\ Contains(q, "this year")

(***************************************************************************)
(* re.search(r'\b(\d{3,6})\b', query)                                      *)
(***************************************************************************)
IsDigit(c) == c \in DigitChars

\* \w: a letter, a digit or the underscore
IsWordChar(c) == c \in LowerChars \/ c \in UpperChars \/ c \in DigitChars \/ c = "_"

\* \b between s[i-1] and s[i]: exactly one side is a word character
\* (outside the string counts as a non-word character)
WordBoundary(s, i) ==
    LET before == i > 1 /\ i - 1 <= Len(s) /\ IsWordChar(Char(s, i - 1))
        after  == i >= 1 /\ i <= Len(s) /\ IsWordChar(Char(s, i))
    IN  before # after

MinDigits == 3
MaxDigits == 6

\* the lengths n for which \b\d{n}\b matches at position i
MatchLengths(s, i) ==
    {n \in MinDigits..MaxDigits :
        /\ i + n - 1 <= Len(s)
        /\ WordBoundary(s, i)
        /\ \A j \in i..(i + n - 1) : IsDigit(Char(s, j))
        /\ WordBoundary(s, i + n)}

\* the search as it would be for r'(\d{3,6})', without the two \b
amount_match_unanchored(s) ==
    LET digits(i, n) == i + n - 1 <= Len(s) /\ \A j \in i..(i + n - 1) : IsDigit(Char(s, j))
        starts == {i \in 1..Len(s) : digits(i, MinDigits)}
    IN  IF starts = {} THEN ""
        ELSE LET i == CHOOSE a \in starts : \A b \in starts : a <= b
                 n == CHOOSE a \in MinDigits..MaxDigits :
                          digits(i, a) /\ \A b \in MinDigits..MaxDigits : digits(i, b) => b <= a
             IN  SubSeq(s, i, i + n - 1)

\* the leftmost match, greedy; "" stands for None
amount_match(s) ==
    LET starts == {i \in 1..Len(s) : MatchLengths(s, i) # {}}
    IN  IF starts = {} THEN ""
        ELSE LET i == CHOOSE a \in starts : \A b \in starts : a <= b
                 n == CHOOSE a \in MatchLengths(s, i) : \A b \in MatchLengths(s, i) : b <= a
             IN  SubSeq(s, i, i + n - 1)

\* threshold = amount_match.group(1) if amount_match else "1000"
threshold(q) == IF amount_match(q) # "" THEN amount_match(q) ELSE "1000"

sql_9(q) == sql_9_head \o threshold(q) \o sql_9_tail

(***************************************************************************)
(* The cascade of lines 43-154: the SQL of the first rule that holds.      *)
(* matched = FALSE is the final else branch.                               *)
(***************************************************************************)
Matched(text) == [matched |-> TRUE, sql |-> text]
NoMatch == [matched |-> FALSE, sql |-> ""]

\* the cascade as it would be with the branch of rule 6 moved above rule 2
intent_pending_first(q) ==
    IF rule_1(q) THEN Matched(sql_1)
    ELSE IF rule_6(q) THEN Matched(sql_6)
    ELSE IF rule_2(q) THEN Matched(sql_2)
    ELSE IF rule_3(q) THEN Matched(sql_3)
    ELSE IF rule_4(q) THEN Matched(sql_4)
    ELSE IF rule_5(q) THEN Matched(sql_5)
    ELSE IF rule_7(q) THEN Matched(sql_7)
    ELSE IF rule_8(q) THEN Matched(sql_8)
    ELSE IF rule_9(q) THEN Matched(sql_9(q))
    ELSE IF rule_10(q) THEN Matched(sql_10)
    ELSE IF rule_11(q) THEN Matched(sql_11)
    ELSE IF rule_12(q) THEN Matched(sql_12)
    ELSE NoMatch

intent(q) ==
    IF rule_1(q) THEN Matched(sql_1)
    ELSE IF rule_2(q) THEN Matched(sql_2)
    ELSE IF rule_3(q) THEN Matched(sql_3)
    ELSE IF rule_4(q) THEN Matched(sql_4)
    ELSE IF rule_5(q) THEN Matched(sql_5)
    ELSE IF rule_6(q) THEN Matched(sql_6)
    ELSE IF rule_7(q) THEN Matched(sql_7)
    ELSE IF rule_8(q) THEN Matched(sql_8)
    ELSE IF rule_9(q) THEN Matched(sql_9(q))
    ELSE IF rule_10(q) THEN Matched(sql_10)
    ELSE IF rule_11(q) THEN Matched(sql_11)
    ELSE IF rule_12(q) THEN Matched(sql_12)
    ELSE NoMatch

\* prompt = f"""...{query}..."""
prompt(q) == prompt_head \o q \o prompt_tail

(***************************************************************************)
(* Fallback Generator: lines 175-177, the returned text cleaned into SQL.  *)
(***************************************************************************)
\* A TLA+ string cannot hold the backquote character: "~" stands for it
\* everywhere in this module, and no other text of the model uses "~".
Tick == "~"
Fence == Tick \o Tick \o Tick

clean(content) ==
    LET s == strip(content)
    IN  IF Contains(s, Fence)
        THEN strip(remove(remove(s, Fence \o "sql"), Fence))
        ELSE s

(***************************************************************************)
(* Query Executor: dict(zip(columns, row)) for each row.                   *)
(***************************************************************************)
Min(a, b) == IF a <= b THEN a ELSE b

zip_dict(columns, row) ==
    LET n == Min(Len(columns), Len(row))
        last(c) == CHOOSE i \in 1..n : columns[i] = c /\ \A j \in 1..n : columns[j] = c => j <= i
    IN  [c \in {columns[i] : i \in 1..n} |-> row[last(c)]]

results(columns, rows) == [r \in 1..Len(rows) |-> zip_dict(columns, rows[r])]

(***************************************************************************)
(* The environment: request bodies, completion outcomes, database outcomes *)
(***************************************************************************)
RECURSIVE Join(_)
\* the fragments of ws separated by single spaces
Join(ws) ==
    IF Len(ws) = 0 THEN ""
    ELSE IF Len(ws) = 1 THEN ws[1]
    ELSE ws[1] \o " " \o Join(Tail(ws))

Phrases(vocabulary, n) ==
    {Join(ws) : ws \in UNION {[1..k -> vocabulary] : k \in 0..n}}

RECURSIVE Glue(_)
\* the fragments of ws with nothing between them
Glue(ws) == IF Len(ws) = 0 THEN "" ELSE ws[1] \o Glue(Tail(ws))

Glued(vocabulary, n) ==
    {Glue(ws) : ws \in UNION {[1..k -> vocabulary] : k \in 0..n}}

StringBody(s) == [kind |-> "string", query |-> s]
AbsentBody == [kind |-> "absent", query |-> ""]   \* {} : no "query" key
NullBody == [kind |-> "null", query |-> ""]       \* {"query": null}

\* body.get("query", "")
get_query(b) == IF b.kind = "absent" THEN "" ELSE b.query

\* questions of the end-to-end specification
RequestVocabulary == {"Top", "vendor", "payments", " "}
Bodies ==
    {AbsentBody, NullBody} \cup {StringBody(s) : s \in Phrases(RequestVocabulary, MaxWords)}

\* what the completion call can do
Leads == {"", " ", VerticalTab, UnitSeparator}
Opens == {"", Fence, Fence \o "sql", Fence \o "postgresql"}
Pads == {"", "\n"}
Inners == {"SELECT 1;", "SELECT 'a  b' ;"}
Closes == {"", Fence}
Contents ==
    {lead \o open \o pad1 \o inner \o pad2 \o close \o lead :
        lead \in Leads, open \in Opens, pad1 \in Pads, inner \in Inners,
        pad2 \in Pads, close \in Closes}

NoCompletion == [kind |-> "none", content |-> "", error |-> ""]
Completions ==
    {[kind |-> "text", content |-> c, error |-> ""] : c \in Contents}
    \cup {[kind |-> "raise", content |-> "", error |-> "Connection error."],
          [kind |-> "no_choices", content |-> "", error |-> "list index out of range"],
          [kind |-> "no_content", content |-> "",
           error |-> "'NoneType' object has no attribute 'strip'"]}

\* what the database can do: the first call that raises, or a result set
ResultSets ==
    {[columns |-> <<"total_spend">>, rows |-> << <<100>> >>],
     [columns |-> <<"invoiceNo", "amount">>, rows |-> << <<1, 20>>, <<2, 30>> >>],
     [columns |-> <<"invoiceNo">>, rows |-> << >>]}
DbFailures ==
    {[fail |-> "get_db", error |-> "connection refused"],
     [fail |-> "cursor", error |-> "connection already closed"],
     [fail |-> "execute", error |-> "syntax error"],
     [fail |-> "fetchall", error |-> "no results to fetch"],
     [fail |-> "description", error |-> "'NoneType' object is not iterable"]}
DbOutcomes ==
    {[fail |-> f.fail, error |-> f.error, columns |-> << >>, rows |-> << >>] : f \in DbFailures}
    \cup {[fail |-> "none", error |-> "", columns |-> r.columns, rows |-> r.rows] : r \in ResultSets}

\* the driver calls of lines 184-190, in order
DbSteps == <<"get_db", "cursor", "execute", "fetchall", "description", "cur.close", "conn.close">>

StepOf(name) == CHOOSE i \in 1..Len(DbSteps) : DbSteps[i] = name

\* the calls made when the call fail raises ("none": no call raises)
CallsMade(fail) ==
    IF fail = "none" THEN DbSteps ELSE SubSeq(DbSteps, 1, StepOf(fail))

\* a call returned normally
Returned(fail, name) == fail = "none" \/ StepOf(name) < StepOf(fail)

(***************************************************************************)
(* The program.                                                            *)
(***************************************************************************)
NoResponse == [k \in {} |-> ""]

Init ==
    /\ pc = "idle"
    /\ body = AbsentBody
    /\ query = ""
    /\ sql = ""
    /\ completion = NoCompletion
    /\ groq_requests = << >>
    /\ db_calls = << >>
    /\ executed = << >>
    /\ open_conns = 0
    /\ open_cursors = 0
    /\ response = NoResponse

\* GET / (lines 30-32).  The status text of line 32 ends with a blank and the
\* character U+2705, which a string of this module cannot hold: the text is
\* kept up to and including the blank, and the last character is left out.
root ==
    /\ pc = "idle"
    /\ pc' = "root_done"
    /\ response' = [status |-> "Vanna AI server running "]
    /\ UNCHANGED <<body, query, sql, completion, groq_requests, db_calls, executed,
                   open_conns, open_cursors>>

\* generate_sql, lines 36-152: read the body, lowercase, reject the empty
\* query, run the cascade
resolve(b) ==
    /\ pc = "idle"
    /\ body' = b
    /\ IF b.kind = "null"
       THEN \* None.lower() raises AttributeError outside any try
            /\ pc' = "raised"
            /\ UNCHANGED <<query, sql, response>>
       ELSE LET q == lower(get_query(b))
                m == intent(q)
            IN
            /\ query' = q
            /\ IF q = ""
               THEN /\ response' = [error |-> "No query provided"]
                    /\ pc' = "done"
                    /\ UNCHANGED sql
               ELSE IF m.matched
               THEN /\ sql' = m.sql
                    /\ pc' = "execute"
                    /\ UNCHANGED response
               ELSE /\ pc' = "fallback"
                    /\ UNCHANGED <<sql, response>>
    /\ UNCHANGED <<completion, groq_requests, db_calls, executed, open_conns, open_cursors>>

\* generate_sql, lines 154-180: one completion call, then clean or report
fallback(out) ==
    /\ pc = "fallback"
    /\ completion' = out
    /\ groq_requests' = Append(groq_requests,
            [model |-> "llama-3.1-8b-instant",
             messages |-> <<[role |-> "user", content |-> prompt(query)]>>])
    /\ IF out.kind = "text"
       THEN /\ sql' = clean(out.content)
            /\ pc' = "execute"
            /\ UNCHANGED response
       ELSE /\ response' = [query |-> query, error |-> out.error]
            /\ pc' = "done"
            /\ UNCHANGED sql
    /\ UNCHANGED <<body, query, db_calls, executed, open_conns, open_cursors>>

\* generate_sql, lines 183-197: connect, execute, fetch, close, respond
execute(out) ==
    /\ pc = "execute"
    /\ db_calls' = db_calls \o CallsMade(out.fail)
    /\ executed' = IF Returned(out.fail, "cursor") THEN Append(executed, sql) ELSE executed
    /\ open_conns' = open_conns
                     + (IF Returned(out.fail, "get_db") THEN 1 ELSE 0)
                     - (IF Returned(out.fail, "conn.close") THEN 1 ELSE 0)
    /\ open_cursors' = open_cursors
                     + (IF Returned(out.fail, "cursor") THEN 1 ELSE 0)
                     - (IF Returned(out.fail, "cur.close") THEN 1 ELSE 0)
    /\ response' = IF out.fail = "none"
                   THEN [query |-> query, sql |-> sql, result |-> results(out.columns, out.rows)]
                   ELSE [query |-> query, sql |-> sql, error |-> out.error]
    /\ pc' = "done"
    /\ UNCHANGED <<body, query, sql, completion, groq_requests>>

\* a POST /generate-sql request arrives with one of the bodies
Request == pc = "idle" /\ \E b \in Bodies : resolve(b)

\* the completion service answers the one call of the fallback branch
Completion == pc = "fallback" /\ \E out \in Completions : fallback(out)

\* the database answers the calls of the executor
Database == pc = "execute" /\ \E out \in DbOutcomes : execute(out)

Next == root \/ Request \/ Completion \/ Database

Spec == Init /\ [][Next]_vars

(***************************************************************************)
(* The resolution step on its own, over a wider set of questions: the      *)
(* phrases of the twelve rules, and digit runs of every kind after           *)
(* "invoice above".                                                        *)
(***************************************************************************)
RuleVocabulary ==
    {"total spend", "90", "Top vendors", "vendor", "average", "invoice", "cash outflow",
     "expenses", "spend by category", "category", "spend", "overdue", "pending",
     "processed", "this month", "current month", "compare vendors", "quarter", "above",
     "total", "amount", "invoice count", "this year", "5000", "payments"}

ThresholdTokens == {"42", "500", "x", " ", "_", "."}

ResolveBodies ==
    {StringBody(s) : s \in Phrases(RuleVocabulary, MaxWords)}
    \cup {StringBody("Invoice above " \o s) : s \in Glued(ThresholdTokens, MaxTokens)}

\* a request arrives with one of the wider set of questions
ResolveRequest == pc = "idle" /\ \E b \in ResolveBodies : resolve(b)

NextResolve == ResolveRequest

SpecResolve == Init /\ [][NextResolve]_vars

(***************************************************************************)
(* Properties of the resolution step.                                      *)
(***************************************************************************)
Rules == 1..12

\* the predicate the specification gives for rule k
RulePredicate(k, q) ==
    CASE k = 1 -> Contains(q, "total spend") /\ Contains(q, "90")
      [] k = 2 -> Contains(q, "top") /\ Contains(q, "vendor")
      [] k = 3 -> Contains(q, "average") /\ Contains(q, "invoice")
      [] k = 4 -> Contains(q, "cash outflow") \/ Contains(q, "expenses")
      [] k = 5 -> Contains(q, "spend by category") \/ Contains(q, "category spend")
      [] k = 6 -> Contains(q, "overdue") \/ Contains(q, "pending")
      [] k = 7 -> Contains(q, "processed")
                  /\ (Contains(q, "this month") \/ Contains(q, "current month"))
      [] k = 8 -> Contains(q, "compare") /\ Contains(q, "vendor") /\ Contains(q, "quarter")
      [] k = 9 -> Contains(q, "above") /\ Contains(q, "invoice")
      [] k = 10 -> Contains(q, "total pending") \/ Contains(q, "pending amount")
      [] k = 11 -> Contains(q, "invoice count") /\ Contains(q, "vendor")
      [] k = 12 -> Contains(q, "category") /\ Contains(q, "this year")

\* the rules whose predicate the lowercased question satisfies
Satisfied(q) == {k \in Rules : RulePredicate(k, q)}

\* the rules that hold while no rule before them does: at most one
First(satisfied) == {k \in satisfied : \A i \in satisfied : k <= i}

\* the request carried a non-empty question and the cascade has run
Resolved == pc \in {"fallback", "execute", "done"} /\ body.kind = "string" /\ body.query # ""

\* the SQL template of rule k; amount is the threshold of rule 9
RuleTemplate(k, amount) ==
    CASE k = 1 -> sql_1 [] k = 2 -> sql_2 [] k = 3 -> sql_3 [] k = 4 -> sql_4
      [] k = 5 -> sql_5 [] k = 6 -> sql_6 [] k = 7 -> sql_7 [] k = 8 -> sql_8
      [] k = 9 -> sql_9_head \o amount \o sql_9_tail
      [] k = 10 -> sql_10 [] k = 11 -> sql_11 [] k = 12 -> sql_12

\* sql is an instance of rule k's template, whatever the threshold
IsTemplateOf(k, text) ==
    IF k = 9
    THEN /\ Len(text) >= Len(sql_9_head) + Len(sql_9_tail)
         /\ SubSeq(text, 1, Len(sql_9_head)) = sql_9_head
         /\ SubSeq(text, Len(text) - Len(sql_9_tail) + 1, Len(text)) = sql_9_tail
    ELSE text = RuleTemplate(k, "")

\* C1: for a non-empty question whose lowercased text satisfies rule k and
\* no rule before k, the resolved SQL is exactly rule k's template, and it is
\* the template of no other rule: when several predicates hold, the rule of
\* lowest index is selected and no later rule fires.
C1_FirstMatchWins ==
    Resolved =>
        \A k \in First(Satisfied(lower(body.query))) :
            /\ pc # "fallback"
            /\ IsTemplateOf(k, sql)
            /\ \A j \in Rules \ {k} : ~IsTemplateOf(j, sql)

\* C1 witness: rule 2 and rule 6 hold together and rule 2's SQL was selected
C1_Witness ==
    /\ Resolved
    /\ {2, 6} \subseteq Satisfied(lower(body.query))
    /\ sql = sql_2

\* the maximal run of word characters that starts at i ends at RunEnd(s, i)
RECURSIVE RunEnd(_, _)
RunEnd(s, i) == IF i < Len(s) /\ IsWordChar(Char(s, i + 1)) THEN RunEnd(s, i + 1) ELSE i

\* the places where a maximal run of word characters starts
RunStarts(s) ==
    {i \in 1..Len(s) : IsWordChar(Char(s, i)) /\ (i = 1 \/ ~IsWordChar(Char(s, i - 1)))}

\* the runs that are numbers of 3 to 6 digits
StandaloneNumbers(s) ==
    {i \in RunStarts(s) :
        /\ RunEnd(s, i) - i + 1 \in 3..6
        /\ \A j \in i..RunEnd(s, i) : Char(s, j) \in DigitChars}

\* the first standalone number of 3 to 6 digits, or 1000
FirstStandaloneNumber(s) ==
    IF StandaloneNumbers(s) = {} THEN "1000"
    ELSE LET i == CHOOSE a \in StandaloneNumbers(s) : \A b \in StandaloneNumbers(s) : a <= b
         IN  SubSeq(s, i, RunEnd(s, i))

\* C8: when rule 9 is the selected rule, the SQL is rule 9's template with
\* the first standalone number of 3 to 6 digits of the question as the
\* threshold (runs of 1-2 or 7+ digits and digits glued to letters or to an
\* underscore are skipped), and with 1000 when there is no such number.
C8_ThresholdIsFirstStandaloneNumber ==
    (Resolved /\ 9 \in First(Satisfied(lower(body.query)))) =>
        sql = RuleTemplate(9, FirstStandaloneNumber(body.query))

\* C8 witness: rule 9 was selected, a number glued to a letter comes first in
\* the question, and the later 500 is the threshold
C8_Witness ==
    /\ Resolved
    /\ 9 \in First(Satisfied(lower(body.query)))
    /\ Contains(body.query, "above x500 500")
    /\ sql = RuleTemplate(9, "500")

\* C10: rule 10 is never the selected rule: every question that satisfies
\* its predicate satisfies rule 6 or an earlier rule, and the resolved SQL is
\* never the total_pending_amount template.
C10_RuleTenUnreachable ==
    Resolved =>
        LET satisfied == Satisfied(lower(body.query))
        IN  /\ sql # sql_10
            /\ 10 \in satisfied => \E i \in 1..6 : i \in satisfied

\* C10 witness: a question about the total pending amount was resolved by
\* rule 6, the list of pending and overdue invoices
C10_Witness ==
    /\ Resolved
    /\ 10 \in Satisfied(lower(body.query))
    /\ sql = sql_6

(***************************************************************************)
(* Properties of a whole request.                                          *)
(***************************************************************************)
Keys(r) == DOMAIN r

\* the query is missing, empty or made of whitespace only
Blank(b) == b.kind = "absent" \/ (b.kind = "string" /\ strip(b.query) = "")

\* the question as the caller submitted it
Submitted == get_query(body)

\* the completion call was made and did not yield text
FallbackFailed == completion.kind \in {"raise", "no_choices", "no_content"}

\* the executor was entered and one of its calls raised
ExecutionFailed == db_calls # << >> /\ db_calls[Len(db_calls)] # "conn.close"

\* the four table declarations of the schema
SchemaDeclarations ==
    {"\"Invoice\"(id, invoiceNo, vendorId, date, amount, status)",
     "\"Vendor\"(id, name, category)",
     "\"Payment\"(id, invoiceId, method, amount, date)",
     "\"LineItem\"(id, description, quantity, price, invoiceId)"}

\* one call, with a single user-role message that names the schema and embeds text
OneCallEmbedding(text) ==
    /\ Len(groq_requests) = 1
    /\ Len(groq_requests[1].messages) = 1
    /\ groq_requests[1].messages[1].role = "user"
    /\ Contains(groq_requests[1].messages[1].content, text)
    /\ \A d \in SchemaDeclarations : Contains(groq_requests[1].messages[1].content, d)

\* C2: a request whose query is empty, missing or whitespace only ends with
\* the 'No query provided' error, with no completion call and no database
\* call made.
C2_BlankQueryRejected ==
    (pc = "done" /\ Blank(body)) =>
        /\ Keys(response) = {"error"}
        /\ response.error = "No query provided"
        /\ groq_requests = << >>
        /\ db_calls = << >>

\* What holds in place of C2: the empty and the missing query are rejected
\* with no call made (a whitespace-only query is not).
EmptyQueryRejected ==
    (pc = "done" /\ Submitted = "") =>
        /\ Keys(response) = {"error"}
        /\ response.error = "No query provided"
        /\ groq_requests = << >>
        /\ db_calls = << >>

\* C3: when the request has ended, every connection and every cursor it
\* opened is closed, whether the executor succeeded or one of its calls
\* failed.
C3_ConnectionsClosed == pc = "done" => open_conns = 0 /\ open_cursors = 0

\* What holds in place of C3: cursor and connection are closed when the
\* executor succeeds.
ClosedOnSuccess ==
    (pc = "done" /\ "result" \in Keys(response)) => open_conns = 0 /\ open_cursors = 0

\* C4: when no rule matches and the completion call fails (an exception, an
\* empty choices list, a null content), the response carries the original
\* question and the error, no sql and no result, and the executor is never
\* invoked.
C4_FallbackFailureResponse ==
    (pc = "done" /\ FallbackFailed) =>
        /\ Keys(response) = {"query", "error"}
        /\ response.query = Submitted
        /\ response.error = completion.error
        /\ db_calls = << >>
        /\ executed = << >>

\* What holds in place of C4: the same, with the lowercased question.
FallbackFailureLowercased ==
    (pc = "done" /\ FallbackFailed) =>
        /\ Keys(response) = {"query", "error"}
        /\ response.query = lower(Submitted)
        /\ response.error = completion.error
        /\ db_calls = << >>
        /\ executed = << >>

\* C5: when the execution of the resolved SQL fails at any step, the handler
\* does not raise: the response carries the original question, the attempted
\* SQL and an error, and no result.
C5_ExecutionFailureResponse ==
    /\ db_calls # << >> => pc = "done"
    /\ (pc = "done" /\ ExecutionFailed) =>
        /\ Keys(response) = {"query", "sql", "error"}
        /\ response.query = Submitted
        /\ response.sql = sql
        /\ executed \in {<< >>, <<sql>>}

\* What holds in place of C5: the same, with the lowercased question.
ExecutionFailureLowercased ==
    /\ db_calls # << >> => pc = "done"
    /\ (pc = "done" /\ ExecutionFailed) =>
        /\ Keys(response) = {"query", "sql", "error"}
        /\ response.query = lower(Submitted)
        /\ response.sql = sql
        /\ executed \in {<< >>, <<sql>>}

\* C6: every response of POST /generate-sql has a query field equal to the
\* question as submitted, and is either sql with result, or an error with
\* whatever of query and sql was determined, on all four exits.
C6_ResponseEchoesQuestion ==
    pc = "done" =>
        /\ "query" \in Keys(response)
        /\ response.query = Submitted
        /\ \/ Keys(response) = {"query", "sql", "result"}
           \/ "error" \in Keys(response) /\ Keys(response) \subseteq {"query", "sql", "error"}

\* What holds in place of C6: the four shapes, the query field being absent
\* on the empty-input exit and lowercased on the other three.
ResponseShapes ==
    pc = "done" =>
        \/ Keys(response) = {"error"} /\ Submitted = ""
        \/ /\ Keys(response) \in {{"query", "error"}, {"query", "sql", "error"},
                                  {"query", "sql", "result"}}
           /\ response.query = lower(Submitted)

\* C7: a non-empty question that satisfies no rule causes exactly one
\* completion call, with a single user-role prompt that holds the literal
\* question and the four table declarations; a question that satisfies a
\* rule causes none.
C7_OneCompletionCall ==
    (pc = "done" /\ Submitted # "") =>
        IF Satisfied(lower(Submitted)) = {}
        THEN OneCallEmbedding(Submitted)
        ELSE groq_requests = << >>

\* What holds in place of C7: the same, the prompt holding the lowercased
\* question.
OneCompletionCallLowercased ==
    (pc = "done" /\ Submitted # "") =>
        IF Satisfied(lower(Submitted)) = {}
        THEN OneCallEmbedding(lower(Submitted))
        ELSE groq_requests = << >>

\* the tags that may follow an opening fence
LanguageTags == {"", "sql", "postgresql"}

\* the returned text is fence-open, tag, SQL, fence-close
Fenced(tag, inner) == Fence \o tag \o "\n" \o inner \o "\n" \o Fence

\* C9: after a successful completion call the SQL handed to the executor is
\* the inner SQL of a returned text that is fence-open (with or without a
\* language tag), SQL, fence-close; and it is the trimmed text when the text
\* has no fence.
C9_FencesStripped ==
    (pc \in {"execute", "done"} /\ completion.kind = "text") =>
        /\ \A tag \in LanguageTags, inner \in Inners :
               completion.content = Fenced(tag, inner) => sql = inner
        /\ ~Contains(completion.content, Fence) => sql = strip(completion.content)
        /\ \A i \in 1..Len(executed) : executed[i] = sql

\* What holds in place of C9: the same for the tag sql and for no tag.
SqlFencesStripped ==
    (pc \in {"execute", "done"} /\ completion.kind = "text") =>
        /\ \A tag \in {"", "sql"}, inner \in Inners :
               completion.content = Fenced(tag, inner) => sql = inner
        /\ ~Contains(completion.content, Fence) => sql = strip(completion.content)
        /\ \A i \in 1..Len(executed) : executed[i] = sql

====
